---- MODULE Spec2Model ----
(***************************************************************************)
(* Model of src/main.js: the asset loader (ModelLoader), the scene set-up  *)
(* (PortfolioScene) and the hover / click / camera-flight layer            *)
(* (InteractionManager).                                                   *)
(*                                                                         *)
(* Lengths, scales and opacities are fixed-point integers in thousandths   *)
(* (0.05 is 50, 1.05 is 1050); times are the program's milliseconds.       *)
(* The browser is one thread: a task (a load callback, a timer, an input   *)
(* event) runs to completion, and the callbacks of one animation frame run *)
(* one after the other with no task in between.                            *)
(***************************************************************************)
EXTENDS Integers, Sequences, FiniteSets

VARIABLES
    now,              \* performance.now()
    loadState,        \* per asset: the state of its loadModel promise
    models,           \* ModelLoader.models: per asset "none" or the shape of its gltf.scene
    modelsLoaded,     \* the result of `await loadAllModels()`: "pending", "true", "false"
    loadingScreen,    \* style.display of #loading-screen
    kind,             \* per type: what PortfolioScene added to the scene for it
    posY,             \* node.position.y
    scale,            \* node.scale (always set uniformly)
    opacity,          \* mesh.material.opacity
    userType,         \* node.userData.type
    origY,            \* node.userData.originalY: <<>> is undefined, <<y>> a value
    clickableObjects, \* InteractionManager.clickableObjects
    floatingObjects,  \* PortfolioScene.floatingObjects
    cursor,           \* document.body.style.cursor
    cameraPos,        \* camera.position
    controlsTarget,   \* controls.target
    flights,          \* the animateCamera closures created so far, in creation order
    rafNext,          \* callbacks requested for the next animation frame (0 is animate)
    rafNow,           \* callbacks of the running frame that have not run yet
    frameTime,        \* the timestamp passed to the callbacks of the running frame
    frames,           \* number of frames run
    timers,           \* pending setTimeout callbacks
    overlay,          \* #content-overlay (class hidden) and #content-body (innerHTML)
    pointer,          \* what the mouse pointer is over: a registered type or NoHit
    fired,            \* history: the clicks whose delayed dispatch has run, in order
    closedAt,         \* history: the number of clicks handled when hideContent
                      \* ran last, -1 before it has run
    lastOp            \* history: the handler that ran last, its input, and in id
                      \* the flight or click it belongs to (for a load callback
                      \* or the load timeout: 1 when it settled the race; for a
                      \* move: 1 when it repeats the move that ran just before)

vars == <<now, loadState, models, modelsLoaded, loadingScreen, kind, posY, scale,
          opacity, userType, origY, clickableObjects, floatingObjects, cursor,
          cameraPos, controlsTarget, flights, rafNext, rafNow, frameTime, frames,
          timers, overlay, pointer, fired, closedAt, lastOp>>

sceneVars == <<kind, posY, scale, opacity, userType, origY, clickableObjects,
               floatingObjects, cursor>>
loaderVars == <<loadState, models, modelsLoaded, loadingScreen>>
cameraVars == <<cameraPos, controlsTarget>>
rafVars == <<rafNext, rafNow, frameTime, frames>>

-----------------------------------------------------------------------------
(* Bounds of the model *)

MaxClicks == 2        \* clicks that hit something (flights started)
MaxFrames == 2        \* animation frames run; no input event is delivered after
                      \* the last of them
FrameStep == 750      \* time between two animation frames

(* Inputs of the model *)

NoHit == "none"
\* the registered objects a pointer ray is aimed at
PointerTargets == {"phone", "folder"}
\* the assets whose gltf.scene holds its mesh under an intermediate node; the
\* mesh of every other asset is a child of its gltf.scene.  The asset files are
\* not part of the sources: every mesh is taken to be a child of its gltf.scene,
\* the case in which `object.parent` is the registered object
NestedAssets == {}
\* the assets whose load may be rejected
FailingAssets == {"ipad"}
\* the assets whose response may take longer than the timeout
StallingAssets == {"ipad"}
\* the values Math.random() * 0.02 + 0.01 and 0.02 + Math.random() * 0.01 take
\* in addFloatingAnimation, in thousandths
FloatSpeeds == {29}
FloatAmplitudes == {29}
\* the timestamps a frame may pass to its callbacks, relative to the time the
\* last click handler read from performance.now(): a frame's timestamp is the time
\* the frame began, which lies before the time of an input event that the
\* browser delivers inside the frame, ahead of the frame's callbacks
TickTimes == {-2, 0, 500, 750, 1000, 1500, 2000}

-----------------------------------------------------------------------------
(* Program constants *)

types == <<"laptop", "phone", "notebook", "businessCard", "folder", "resume", "ipad">>
TypeSet == {types[i] : i \in 1..Len(types)}
objectsToFloat == {"phone", "businessCard"}

loadTimeout == 10000
hideLoadingDelay == 1000
contentDelay == 500
duration == 1500
idealDistance == 3000
idealHeight == 2000
lookOffset == 500
baseOpacity == 1000
hoverOpacity == 800
baseScale == 1000
hoverScale == 1050
hoverLift == 50

V(x, y, z) == [x |-> x, y |-> y, z |-> z]

cameraStart == V(0, 5000, 10000)
targetStart == V(0, 0, 0)

\* add3DObjects: position and scale of each loaded model
modelPosition ==
    [laptop |-> V(-2000, 50, 0), phone |-> V(2000, 80, -1000),
     notebook |-> V(1000, 80, 1000), businessCard |-> V(-1000, 60, -1500),
     folder |-> V(0, 80, -1200), resume |-> V(-2500, 60, 1200),
     ipad |-> V(2500, 80, 500)]
modelScale ==
    [laptop |-> 800, phone |-> 1200, notebook |-> 1000, businessCard |-> 1000,
     folder |-> 1000, resume |-> 1000, ipad |-> 1000]
\* addFallbackObjects: position of each placeholder mesh
fallbackPosition ==
    [laptop |-> V(-2000, 150, 0), phone |-> V(2000, 125, -1000),
     notebook |-> V(1000, 150, 1000), businessCard |-> V(-1000, 110, -1500),
     folder |-> V(0, 125, -1200), resume |-> V(-2500, 110, 1200),
     ipad |-> V(2500, 140, 500)]

\* handleObjectClick: the section each case of the switch shows
sectionOf ==
    [laptop |-> "games", phone |-> "apps", notebook |-> "notebooks",
     businessCard |-> "about", folder |-> "projects", resume |-> "resume",
     ipad |-> "artwork"]

-----------------------------------------------------------------------------
(* The scene graph *)

Null == <<"null", "">>
Scene == <<"scene", "">>
Desk == <<"desk", "">>
Root(t) == <<"root", t>>     \* what is handed to setupInteractions for type t
Mid(t) == <<"mid", t>>       \* an intermediate node of a loaded model
Mesh(t) == <<"mesh", t>>     \* the mesh of a loaded model
Nodes == {Scene, Desk} \cup ({"root", "mesh"} \X TypeSet) \cup {Mid(t) : t \in NestedAssets}

Range(s) == {s[i] : i \in 1..Len(s)}
Min(a, b) == IF a < b THEN a ELSE b

\* kind k: "absent", "box" (a placeholder Mesh added to the scene), "flat" (a
\* Group whose child is the mesh), "nested" (a Group, a node under it, the mesh)
InGraph(k, n) ==
    CASE n[1] = "root" -> k[n[2]] # "absent"
      [] n[1] = "mid" -> k[n[2]] = "nested"
      [] n[1] = "mesh" -> k[n[2]] \in {"flat", "nested"}
      [] OTHER -> n \in {Scene, Desk}

\* Object3D.parent
Parent(k, n) ==
    CASE n = Desk -> Scene
      [] n[1] = "root" /\ InGraph(k, n) -> Scene
      [] n[1] = "mid" /\ InGraph(k, n) -> Root(n[2])
      [] n[1] = "mesh" /\ k[n[2]] = "flat" -> Root(n[2])
      [] n[1] = "mesh" /\ k[n[2]] = "nested" -> Mid(n[2])
      [] OTHER -> Null

\* Object3D.isMesh
isMesh(k, n) ==
    \/ n = Desk
    \/ n[1] = "root" /\ k[n[2]] = "box"
    \/ n[1] = "mesh" /\ InGraph(k, n)

\* Object3D.traverse: m is n or a descendant of n, so n.traverse visits it
under(k, m, n) ==
    /\ InGraph(k, m)
    /\ \/ m = n
       \/ Parent(k, m) = n
       \/ Parent(k, Parent(k, m)) = n
       \/ Parent(k, Parent(k, Parent(k, m))) = n

\* Object3D.position
position(k, py, n) ==
    IF n[1] = "root"
    THEN LET p == IF k[n[2]] = "box" THEN fallbackPosition[n[2]]
                  ELSE modelPosition[n[2]]
         IN V(p.x, py[n], p.z)
    ELSE V(0, py[n], 0)

-----------------------------------------------------------------------------
(* PortfolioScene: what runs after `await this.modelLoader.loadAllModels()` *)

\* ModelLoader.getModel, as add3DObjects uses it: null leaves the slot empty
getModel(m, t) == IF m[t] = "none" THEN "absent" ELSE m[t]

\* the array handed to setupInteractions, without its null entries
registered(k) ==
    SelectSeq([i \in 1..Len(types) |-> Root(types[i])],
              LAMBDA n : k[n[2]] # "absent")

\* addFloatingAnimation: the registered objects that float, with their y; rnd
\* gives each its two Math.random() draws
addFloatingAnimation(objs, py, rnd) ==
    LET sel == SelectSeq(objs, LAMBDA n : n[2] \in objectsToFloat)
    IN [i \in 1..Len(sel) |->
          [object |-> sel[i], originalY |-> py[sel[i]],
           speed |-> rnd[sel[i][2]][1], amplitude |-> rnd[sel[i][2]][2]]]

\* Math.sin of an angle in thousandths of a radian, in thousandths: the series
\* x - x^3/6, which is exact to the unit for the angles the clock's bound allows
sin(a) == a - (a * a * a) \div 6000000

\* animate: Math.sin(time * item.speed) * item.amplitude at performance.now() t
floatOffset(item, t) == (sin((t * item.speed) \div 1000) * item.amplitude) \div 1000

\* animate: the y each floating object gets at time t
RECURSIVE floatY(_, _, _)
floatY(py, fl, t) ==
    IF fl = <<>> THEN py
    ELSE LET item == Head(fl)
         IN floatY([py EXCEPT ![item.object] = item.originalY + floatOffset(item, t)],
                   Tail(fl), t)

\* a variant of useModels that takes the loaded models whatever the race's result
useModelsAlways(loaded) == TRUE

\* init: `if (modelsLoaded)` chooses add3DObjects, else addFallbackObjects
useModels(loaded) == loaded

\* init after the await: add3DObjects or addFallbackObjects, setupInteractions
\* (addClickableObject for each object, addFloatingAnimation), the timer that
\* hides the loading screen, and the first call of animate
initContinue(loaded, m, rnd) ==
    LET k == [t \in TypeSet |-> IF useModels(loaded) THEN getModel(m, t) ELSE "box"]
        objs == registered(k)
        py == [n \in Nodes |->
                 IF n \in Range(objs)
                 THEN (IF useModels(loaded) THEN modelPosition[n[2]].y
                       ELSE fallbackPosition[n[2]].y)
                 ELSE posY[n]]
        fl == addFloatingAnimation(objs, py, rnd)
    IN /\ kind' = k
       /\ scale' = [n \in Nodes |->
                      IF n \in Range(objs) /\ useModels(loaded) THEN modelScale[n[2]]
                      ELSE scale[n]]
       /\ userType' = [n \in Nodes |->
                         IF n \in Range(objs) THEN n[2] ELSE userType[n]]
       /\ origY' = [n \in Nodes |-> IF n \in Range(objs) THEN <<>> ELSE origY[n]]
       /\ clickableObjects' = objs
       /\ floatingObjects' = fl
       /\ posY' = floatY(py, fl, now)
       /\ rafNext' = Append(rafNext, 0)
       /\ UNCHANGED <<opacity, cursor, rafNow, frameTime, frames>>

hideLoadingTimer == [due |-> now + hideLoadingDelay, kind |-> "hideLoading",
                     type |-> "", click |-> 0]

-----------------------------------------------------------------------------
(* ModelLoader *)

shape(a) == IF a \in NestedAssets THEN "nested" ELSE "flat"

\* a variant of raceOpen in which the race takes every settlement
raceAlwaysOpen == TRUE

\* Promise.race: the first promise to settle settles the race, later ones are
\* ignored
raceOpen == modelsLoaded = "pending"

\* the position of asset a in the order loadAllModels requests the assets
requestIndex(a) == CHOOSE i \in 1..Len(types) : types[i] = a

\* loadModel's onLoad callback for asset a.  When
\* it completes Promise.all while the race is open, loadAllModels returns true
\* and init continues.  Responses arrive in request order.
LoadResolve(a, rnd) ==
    /\ loadState[a] = "pending"
    /\ \A b \in TypeSet : requestIndex(b) < requestIndex(a) => loadState[b] # "pending"
    /\ rafNow = <<>>
    /\ loadState' = [loadState EXCEPT ![a] = "resolved"]
    /\ models' = [models EXCEPT ![a] = shape(a)]
    /\ IF raceOpen /\ \A b \in TypeSet : loadState'[b] = "resolved"
       THEN /\ modelsLoaded' = "true"
            /\ initContinue(TRUE, models', rnd)
            /\ timers' = Append(timers, hideLoadingTimer)
       ELSE /\ UNCHANGED <<modelsLoaded, sceneVars, rafVars, timers>>
    /\ lastOp' = [op |-> "loadResolve", hit |-> a,
                  id |-> IF modelsLoaded' # modelsLoaded THEN 1 ELSE 0]
    /\ UNCHANGED <<now, loadingScreen, cameraVars, flights, overlay, pointer, fired, closedAt>>

\* loadModel's onError callback for asset a: the promise rejects; while the race
\* is open loadAllModels returns false and init continues with the placeholders
LoadReject(a, rnd) ==
    /\ loadState[a] = "pending"
    /\ \A b \in TypeSet : requestIndex(b) < requestIndex(a) => loadState[b] # "pending"
    /\ rafNow = <<>>
    /\ loadState' = [loadState EXCEPT ![a] = "rejected"]
    /\ IF raceOpen
       THEN /\ modelsLoaded' = "false"
            /\ initContinue(FALSE, models, rnd)
            /\ timers' = Append(timers, hideLoadingTimer)
       ELSE /\ UNCHANGED <<modelsLoaded, sceneVars, rafVars, timers>>
    /\ lastOp' = [op |-> "loadReject", hit |-> a,
                  id |-> IF modelsLoaded' # modelsLoaded THEN 1 ELSE 0]
    /\ UNCHANGED <<now, models, loadingScreen, cameraVars, flights, overlay, pointer, fired, closedAt>>

-----------------------------------------------------------------------------
(* Timers and the clock *)

\* the pending timer that runs next: the earliest due, the first set among equals
nextTimer ==
    CHOOSE i \in 1..Len(timers) :
        \A j \in 1..Len(timers) :
            timers[i].due < timers[j].due \/ (timers[i].due = timers[j].due /\ i <= j)

removeAt(s, i) == SubSeq(s, 1, i - 1) \o SubSeq(s, i + 1, Len(s))

\* a timer that is due runs before the next input event and the next frame
noTimerDue == \A i \in 1..Len(timers) : timers[i].due > now

\* before the first frame is requested nothing runs until the next timer is due:
\* an asset stalls and time passes
AdvanceClock ==
    /\ rafNext = <<>> /\ rafNow = <<>>
    /\ \E a \in StallingAssets :
          /\ loadState[a] = "pending"
          /\ \A b \in TypeSet : requestIndex(b) < requestIndex(a) => loadState[b] # "pending"
    /\ timers # <<>>
    /\ timers[nextTimer].due > now
    /\ now' = timers[nextTimer].due
    /\ lastOp' = [op |-> "wait", hit |-> NoHit, id |-> 0]
    /\ UNCHANGED <<loaderVars, sceneVars, cameraVars, flights, rafVars, timers,
                   overlay, pointer, fired, closedAt>>

\* loadAllModels' timeout: rejects the race; a settled race ignores it
LoadTimeout(rnd) ==
    /\ timers # <<>> /\ rafNow = <<>>
    /\ timers[nextTimer].due <= now
    /\ timers[nextTimer].kind = "loadTimeout"
    /\ IF raceOpen
       THEN /\ modelsLoaded' = "false"
            /\ initContinue(FALSE, models, rnd)
            /\ timers' = Append(removeAt(timers, nextTimer), hideLoadingTimer)
       ELSE /\ timers' = removeAt(timers, nextTimer)
            /\ UNCHANGED <<modelsLoaded, sceneVars, rafVars>>
    /\ lastOp' = [op |-> "loadTimeout", hit |-> NoHit,
                  id |-> IF modelsLoaded' # modelsLoaded THEN 1 ELSE 0]
    /\ UNCHANGED <<now, loadState, models, loadingScreen, cameraVars,
                   flights, overlay, pointer, fired, closedAt>>

\* init's setTimeout callback: hides the loading screen
HideLoadingScreen ==
    /\ timers # <<>> /\ rafNow = <<>>
    /\ timers[nextTimer].due <= now
    /\ timers[nextTimer].kind = "hideLoading"
    /\ loadingScreen' = "none"
    /\ timers' = removeAt(timers, nextTimer)
    /\ lastOp' = [op |-> "hideLoading", hit |-> NoHit, id |-> 0]
    /\ UNCHANGED <<now, loadState, models, modelsLoaded, sceneVars,
                   cameraVars, flights, rafVars, overlay, pointer, fired, closedAt>>

-----------------------------------------------------------------------------
(* new PortfolioScene(): init up to its await, and loadAllModels up to its own *)

Init ==
    /\ now = 0
    /\ loadState = [t \in TypeSet |-> "pending"]
    /\ models = [t \in TypeSet |-> "none"]
    /\ modelsLoaded = "pending"
    /\ loadingScreen = "flex"
    /\ kind = [t \in TypeSet |-> "absent"]
    /\ posY = [n \in Nodes |-> IF n = Desk THEN -100 ELSE 0]
    /\ scale = [n \in Nodes |-> baseScale]
    /\ opacity = [n \in Nodes |-> baseOpacity]
    /\ userType = [n \in Nodes |-> "undefined"]
    /\ origY = [n \in Nodes |-> <<>>]
    /\ clickableObjects = <<>>
    /\ floatingObjects = <<>>
    /\ cursor = "default"
    /\ cameraPos = cameraStart
    /\ controlsTarget = targetStart
    /\ flights = <<>>
    /\ rafNext = <<>>
    /\ rafNow = <<>>
    /\ frameTime = 0
    /\ frames = 0
    /\ timers = <<[due |-> loadTimeout, kind |-> "loadTimeout", type |-> "", click |-> 0]>>
    /\ overlay = [hidden |-> TRUE, content |-> "initial"]
    /\ pointer = NoHit
    /\ fired = <<>>
    /\ closedAt = -1
    /\ lastOp = [op |-> "init", hit |-> NoHit, id |-> 0]

-----------------------------------------------------------------------------
(* InteractionManager *)

\* the listeners are added by the constructor, which setupInteractions calls
listening == modelsLoaded # "pending"

\* a variant of storeOriginalY that stores the y the object has on every hover
storeLiveY(hov, py) == [origY EXCEPT ![hov] = <<posY[hov]>>]

\* a variant of intersectObjects that tests every child of the scene, so that a
\* ray aimed at no registered object hits the desk
intersectSceneChildren(h) ==
    IF h # NoHit /\ Root(h) \in Range(clickableObjects)
    THEN <<IF kind[h] = "box" THEN Root(h) ELSE Mesh(h)>>
    ELSE <<Desk>>

\* raycaster.intersectObjects(this.clickableObjects, true) for a ray aimed at
\* h: the meshes hit, nearest first (only descendants of the list are tested)
intersectObjects(h) ==
    IF h # NoHit /\ Root(h) \in Range(clickableObjects)
    THEN <<IF kind[h] = "box" THEN Root(h) ELSE Mesh(h)>>
    ELSE <<>>

\* intersects[0].object.parent || intersects[0].object
parentOrSelf(n) == IF Parent(kind, n) # Null THEN Parent(kind, n) ELSE n

\* onMouseMove, first loop: every registered object back to opacity 1, scale 1
\* and, where userData.originalY is set, to that y
resetOpacity ==
    [n \in Nodes |->
        IF isMesh(kind, n) /\ \E o \in Range(clickableObjects) : under(kind, n, o)
        THEN baseOpacity ELSE opacity[n]]
resetScale ==
    [n \in Nodes |-> IF n \in Range(clickableObjects) THEN baseScale ELSE scale[n]]
resetY ==
    [n \in Nodes |->
        IF n \in Range(clickableObjects) /\ origY[n] # <<>> THEN origY[n][1]
        ELSE posY[n]]

\* onMouseMove, the hovered object: userData.originalY when first hovered
storeOriginalY(hov, py) ==
    [origY EXCEPT ![hov] = IF origY[hov] = <<>> THEN <<py[hov]>> ELSE origY[hov]]

onMouseMove(h) ==
    LET intersects == intersectObjects(h)
    IN IF intersects # <<>>
       THEN LET hoveredObject == parentOrSelf(intersects[1])
                oy == storeOriginalY(hoveredObject, resetY)
            IN /\ cursor' = "pointer"
               /\ origY' = oy
               /\ opacity' = [n \in Nodes |->
                                IF isMesh(kind, n) /\ under(kind, n, hoveredObject)
                                THEN hoverOpacity ELSE resetOpacity[n]]
               /\ scale' = [resetScale EXCEPT ![hoveredObject] = hoverScale]
               /\ posY' = [resetY EXCEPT ![hoveredObject] = oy[hoveredObject][1] + hoverLift]
       ELSE /\ cursor' = "default"
            /\ origY' = origY
            /\ opacity' = resetOpacity
            /\ scale' = resetScale
            /\ posY' = resetY

\* the mousemove event; no listener exists before setupInteractions
OnMouseMove(h) ==
    /\ rafNow = <<>>
    /\ noTimerDue
    /\ frames < MaxFrames
    /\ IF listening THEN onMouseMove(h)
       ELSE UNCHANGED <<cursor, origY, opacity, scale, posY>>
    /\ pointer' = h
    /\ lastOp' = [op |-> "move", hit |-> h,
                  id |-> IF lastOp.op = "move" /\ lastOp.hit = h THEN 1 ELSE 0]
    /\ UNCHANGED <<now, loaderVars, kind, userType, clickableObjects, floatingObjects,
                   cameraVars, flights, rafVars, timers, overlay, fired, closedAt>>

\* animateCameraToObject up to its requestAnimationFrame: the closure it builds
animateCameraToObject(targetObject, h) ==
    LET objectPosition == position(kind, posY, targetObject)
    IN [targetObject |-> targetObject,
        hit |-> h,
        startPosition |-> cameraPos,
        startTarget |-> controlsTarget,
        newPosition |-> V(objectPosition.x + idealDistance,
                          objectPosition.y + idealHeight,
                          objectPosition.z + idealDistance),
        newTarget |-> V(objectPosition.x, objectPosition.y + lookOffset,
                        objectPosition.z),
        startTime |-> now]

\* handleObjectClick: starts the flight and sets the timer of the dispatch
handleObjectClick(object, h) ==
    /\ flights' = Append(flights, animateCameraToObject(object, h))
    /\ rafNext' = Append(rafNext, Len(flights) + 1)
    /\ timers' = Append(timers, [due |-> now + contentDelay, kind |-> "content",
                                 type |-> userType[object], click |-> Len(flights) + 1])

onMouseClick(h) ==
    LET intersects == intersectObjects(h)
    IN IF intersects # <<>>
       THEN handleObjectClick(parentOrSelf(intersects[1]), h)
       ELSE UNCHANGED <<flights, rafNext, timers>>

\* the click event on the canvas, at the place the pointer was moved to
OnMouseClick(h) ==
    /\ rafNow = <<>>
    /\ noTimerDue
    /\ h = pointer
    /\ Len(flights) < MaxClicks
    /\ frames < MaxFrames
    /\ IF listening THEN onMouseClick(h)
       ELSE UNCHANGED <<flights, rafNext, timers>>
    /\ lastOp' = [op |-> "click", hit |-> h, id |-> Len(flights')]
    /\ UNCHANGED <<now, loaderVars, sceneVars, cameraVars, rafNow, frameTime, frames,
                   overlay, pointer, fired, closedAt>>

\* showContent
showContent(content) == [hidden |-> FALSE, content |-> content]

\* a variant of dispatch whose switch has a default case that shows a section
dispatchWithDefault(type) ==
    IF type \in TypeSet THEN showContent(sectionOf[type]) ELSE showContent("about")

\* the switch of handleObjectClick's timer callback
dispatch(type) ==
    IF type \in TypeSet THEN showContent(sectionOf[type]) ELSE overlay

\* handleObjectClick's setTimeout callback
ContentTimer ==
    /\ timers # <<>> /\ rafNow = <<>>
    /\ timers[nextTimer].due <= now
    /\ timers[nextTimer].kind = "content"
    /\ overlay' = dispatch(timers[nextTimer].type)
    /\ fired' = Append(fired, timers[nextTimer].click)
    /\ timers' = removeAt(timers, nextTimer)
    /\ lastOp' = [op |-> "dispatch", hit |-> flights[timers[nextTimer].click].hit,
                  id |-> timers[nextTimer].click]
    /\ UNCHANGED <<now, loaderVars, sceneVars, cameraVars, flights, rafVars, pointer,
                   closedAt>>

\* hideContent, from the close button or a click on the overlay's background;
\* the click is a task of its own and may run between two timers that are due
HideContent ==
    /\ rafNow = <<>>
    /\ frames < MaxFrames
    /\ listening
    /\ ~overlay.hidden
    /\ overlay' = [overlay EXCEPT !.hidden = TRUE]
    /\ closedAt' = Len(flights)
    /\ lastOp' = [op |-> "hide", hit |-> NoHit, id |-> 0]
    /\ UNCHANGED <<now, loaderVars, sceneVars, cameraVars, flights, rafVars, timers,
                   pointer, fired>>

-----------------------------------------------------------------------------
(* Animation frames *)

\* the browser starts a frame: the callbacks requested so far will run, each
\* with the frame's timestamp
BeginFrame ==
    /\ rafNow = <<>> /\ rafNext # <<>>
    /\ frames < MaxFrames
    /\ noTimerDue
    /\ now' = now + FrameStep
    /\ frameTime' = now'
    /\ rafNow' = rafNext
    /\ rafNext' = <<>>
    /\ frames' = frames + 1
    /\ lastOp' = [op |-> "frame", hit |-> NoHit, id |-> 0]
    /\ UNCHANGED <<loaderVars, sceneVars, cameraVars, flights, timers, overlay, pointer, fired, closedAt>>

\* PortfolioScene.animate as a frame callback
Animate ==
    /\ rafNow # <<>> /\ Head(rafNow) = 0
    /\ rafNow' = Tail(rafNow)
    /\ rafNext' = Append(rafNext, 0)
    /\ posY' = floatY(posY, floatingObjects, now)
    /\ lastOp' = [op |-> "animate", hit |-> NoHit, id |-> 0]
    /\ UNCHANGED <<now, loaderVars, kind, scale, opacity, userType, origY,
                   clickableObjects, floatingObjects, cursor, cameraVars, flights,
                   frameTime, frames, timers, overlay, pointer, fired, closedAt>>

\* a variant of progress that stays below 1
progressBelowOne(currentTime, startTime) ==
    Min(((currentTime - startTime) * 1000) \div duration, 999)

\* Math.min(elapsed / duration, 1), in thousandths
progress(currentTime, startTime) ==
    Min(((currentTime - startTime) * 1000) \div duration, 1000)

\* a variant of easeInOut whose second branch is the first branch's curve
easeIn(t) == (2 * t * t) \div 1000

\* easeInOut = t => t < 0.5 ? 2 * t * t : -1 + (4 - 2 * t) * t, in thousandths
easeInOut(t) ==
    IF t < 500 THEN (2 * t * t) \div 1000
    ELSE -1000 + ((4000 - 2 * t) * t) \div 1000

\* Vector3.lerpVectors(v1, v2, alpha): v1 + (v2 - v1) * alpha
lerp(a, b, alpha) == a + ((b - a) * alpha) \div 1000
lerpVectors(v1, v2, alpha) ==
    V(lerp(v1.x, v2.x, alpha), lerp(v1.y, v2.y, alpha), lerp(v1.z, v2.z, alpha))

\* the animateCamera closure of flight id as a frame callback
AnimateCamera ==
    /\ rafNow # <<>> /\ Head(rafNow) # 0
    /\ LET id == Head(rafNow)
           f == flights[id]
           p == progress(frameTime, f.startTime)
           easedProgress == easeInOut(p)
       IN /\ cameraPos' = lerpVectors(f.startPosition, f.newPosition, easedProgress)
          /\ controlsTarget' = lerpVectors(f.startTarget, f.newTarget, easedProgress)
          /\ rafNext' = IF p < 1000 THEN Append(rafNext, id) ELSE rafNext
          /\ lastOp' = [op |-> "animateCamera", hit |-> NoHit, id |-> id]
    /\ rafNow' = Tail(rafNow)
    /\ UNCHANGED <<now, loaderVars, sceneVars, flights, frameTime, frames, timers,
                   overlay, pointer, fired, closedAt>>

-----------------------------------------------------------------------------

\* the Math.random() draws of addFloatingAnimation
Randoms == [objectsToFloat -> FloatSpeeds \X FloatAmplitudes]

Next ==
    \/ \E a \in TypeSet, rnd \in Randoms : LoadResolve(a, rnd)
    \/ \E a \in FailingAssets, rnd \in Randoms : LoadReject(a, rnd)
    \/ AdvanceClock
    \/ \E rnd \in Randoms : LoadTimeout(rnd)
    \/ HideLoadingScreen
    \/ \E h \in PointerTargets \cup {NoHit} : OnMouseMove(h)
    \/ \E h \in PointerTargets \cup {NoHit} : OnMouseClick(h)
    \/ ContentTimer
    \/ HideContent
    \/ BeginFrame
    \/ Animate
    \/ AnimateCamera

Spec == Init /\ [][Next]_vars

-----------------------------------------------------------------------------
(* One flight under every frame timestamp: the scene after all seven models  *)
(* have loaded (the last one at the time of the load timeout), the pointer   *)
(* was moved over an object and the object was clicked; from there frames    *)
(* run with timestamps drawn from TickTimes, timers run when due, and the    *)
(* object may be clicked again.                                              *)

\* a frame whose callbacks are passed the timestamp ts; timestamps increase
FrameAt(ts) ==
    /\ rafNow = <<>> /\ rafNext # <<>>
    /\ ts > frameTime
    /\ frameTime' = ts
    /\ now' = IF ts > now THEN ts ELSE now
    /\ rafNow' = rafNext
    /\ rafNext' = <<>>
    /\ frames' = frames + 1
    /\ lastOp' = [op |-> "frame", hit |-> NoHit, id |-> 0]
    /\ UNCHANGED <<loaderVars, sceneVars, cameraVars, flights, timers, overlay, pointer, fired, closedAt>>

TickInit ==
    \E h \in PointerTargets, rnd \in Randoms :
        LET k == [t \in TypeSet |-> getModel([a \in TypeSet |-> shape(a)], t)]
            objs == registered(k)
            placed == [n \in Nodes |->
                         IF n \in Range(objs) THEN modelPosition[n[2]].y
                         ELSE IF n = Desk THEN -100 ELSE 0]
            fl == addFloatingAnimation(objs, placed, rnd)
            py == floatY(placed, fl, loadTimeout)
        IN /\ now = loadTimeout
           /\ loadState = [t \in TypeSet |-> "resolved"]
           /\ models = [t \in TypeSet |-> shape(t)]
           /\ modelsLoaded = "true"
           /\ loadingScreen = "flex"
           /\ kind = k
           /\ userType = [n \in Nodes |-> IF n \in Range(objs) THEN n[2] ELSE "undefined"]
           /\ clickableObjects = objs
           /\ floatingObjects = fl
           \* onMouseMove(h)
           /\ cursor = "pointer"
           /\ origY = [n \in Nodes |-> IF n = Root(h) THEN <<py[n]>> ELSE <<>>]
           /\ opacity = [n \in Nodes |-> IF n = Mesh(h) THEN hoverOpacity ELSE baseOpacity]
           /\ scale = [n \in Nodes |-> IF n = Root(h) THEN hoverScale ELSE baseScale]
           /\ posY = [py EXCEPT ![Root(h)] = py[Root(h)] + hoverLift]
           /\ pointer = h
           \* onMouseClick(h)
           /\ cameraPos = cameraStart
           /\ controlsTarget = targetStart
           /\ flights = <<animateCameraToObject(Root(h), h)>>
           /\ rafNext = <<0, 1>>
           /\ rafNow = <<>>
           /\ frameTime = 0
           /\ frames = 0
           /\ timers = <<[due |-> loadTimeout + hideLoadingDelay, kind |-> "hideLoading",
                           type |-> "", click |-> 0],
                          [due |-> loadTimeout + contentDelay, kind |-> "content",
                           type |-> h, click |-> 1]>>
           /\ overlay = [hidden |-> TRUE, content |-> "initial"]
           /\ fired = <<>>
           /\ closedAt = -1
           /\ lastOp = [op |-> "click", hit |-> h, id |-> 1]

TickNext ==
    \/ \E d \in TickTimes : FrameAt(flights[Len(flights)].startTime + d)
    \/ Animate
    \/ AnimateCamera
    \/ \E h \in PointerTargets : OnMouseClick(h)
    \/ ContentTimer
    \/ HideLoadingScreen

TickSpec == TickInit /\ [][TickNext]_vars

\* frames keep coming while callbacks are requested, and the callbacks of a
\* frame all run
TickLive ==
    /\ TickSpec
    /\ WF_vars(\E d \in TickTimes : FrameAt(flights[Len(flights)].startTime + d))
    /\ WF_vars(Animate)
    /\ WF_vars(AnimateCamera)

-----------------------------------------------------------------------------
(* Vocabulary of the claims *)

Registered == Range(clickableObjects)

\* the position add3DObjects or addFallbackObjects gave the object of type t
basePosition(t) ==
    IF kind[t] = "box" THEN fallbackPosition[t] ELSE modelPosition[t]

meshesOf(o) == {m \in Nodes : isMesh(kind, m) /\ under(kind, m, o)}

\* object o carries hover feedback / is at baseline
Hovered(o) ==
    /\ \A m \in meshesOf(o) : opacity[m] = hoverOpacity
    /\ scale[o] = hoverScale
    /\ posY[o] = basePosition(o[2]).y + hoverLift
Baseline(o) ==
    /\ \A m \in meshesOf(o) : opacity[m] = baseOpacity
    /\ scale[o] = baseScale
    /\ posY[o] = basePosition(o[2]).y

activeFlights == {i \in 1..Len(flights) : i \in Range(rafNext) \cup Range(rafNow)}
contentTimers == {i \in 1..Len(timers) : timers[i].kind = "content"}

-----------------------------------------------------------------------------
(* Claims *)

\* C1: the object that hover feedback or click handling is applied to is a
\* registered interactive object carrying a logical type: every node that was
\* given the hover scale or an originalY, and every target of a flight, is a
\* member of clickableObjects with a type.
C1_FeedbackOnRegistered ==
    /\ \A n \in Nodes :
          (scale[n] = hoverScale \/ origY[n] # <<>>)
              => n \in Registered /\ userType[n] \in TypeSet
    /\ \A i \in 1..Len(flights) :
          /\ flights[i].targetObject \in Registered
          /\ userType[flights[i].targetObject] \in TypeSet

\* C2: at the end of each onMouseMove at most one registered object carries
\* hover feedback (opacity 0.8, scale 1.05, y = base + 0.05) and every other
\* registered object is at opacity 1.0, scale 1.0 and its base position.
C2_AtMostOneHovered ==
    (lastOp.op = "move" /\ listening) =>
        /\ Cardinality({o \in Registered : Hovered(o)}) <= 1
        /\ \A o \in Registered : Hovered(o) \/ Baseline(o)

\* C3: when the delayed dispatch of a click that hit the object of type T runs,
\* the overlay shows the section mapped to T.
C3_ClickShowsContent ==
    lastOp.op = "dispatch" => overlay = showContent(sectionOf[lastOp.hit])

\* C4: at most one camera flight is active: a flight that a later call of
\* animateCameraToObject replaced writes the camera and the controls target no
\* more, so that every animateCamera callback that runs is the newest flight's.
C4_OneActiveFlight ==
    lastOp.op = "animateCamera" => lastOp.id = Len(flights)

\* C5: with a flight to A and a flight to B started before A's completes, the
\* camera and the look-at target equal B's end pose once B's flight is over, and
\* in no state do they equal A's end pose.
C5_SecondFlightWins ==
    (/\ Len(flights) = 2
     /\ flights[2].startTime < flights[1].startTime + duration
     /\ flights[1].hit # flights[2].hit) =>
        /\ ~(cameraPos = flights[1].newPosition /\ controlsTarget = flights[1].newTarget)
        /\ (lastOp.op = "animateCamera" /\ activeFlights = {}) =>
              cameraPos = flights[2].newPosition /\ controlsTarget = flights[2].newTarget

\* C6: the end pose of every flight is the base position of the object that was
\* clicked plus (3, 2, 3), and its look-at the base position plus (0, 0.5, 0).
C6_EndPoseFromBasePosition ==
    \A i \in 1..Len(flights) :
        LET b == basePosition(flights[i].hit)
        IN /\ flights[i].newPosition =
                  V(b.x + idealDistance, b.y + idealHeight, b.z + idealDistance)
           /\ flights[i].newTarget = V(b.x, b.y + lookOffset, b.z)

\* C7: userData.originalY of a registered object is the y the object was
\* registered at, and once stored it never changes.
C7_OriginalYIsRegistrationY ==
    [][\A o \in Registered' :
          /\ origY'[o] # <<>> => origY'[o][1] = basePosition(o[2])'.y
          /\ (o \in Registered /\ origY[o] # <<>>) => origY'[o] = origY[o]]_vars

C9_MissedClickNoOp ==
    [][(lastOp'.op = "click" /\ lastOp'.hit = NoHit) =>
          UNCHANGED <<cameraPos, controlsTarget, flights, rafNext, rafNow, timers,
                      overlay>>]_vars

\* a missed click lands while a flight is under way and a dispatch is pending
C9_Witness ==
    /\ lastOp.op = "click" /\ lastOp.hit = NoHit
    /\ listening
    /\ activeFlights # {}
    /\ contentTimers # {}

\* C10: when a second object is clicked before the first click's delay is over,
\* both dispatches run, in click order, and the content then displayed is that
\* of the second click.
C10_BothDispatchesLastWins ==
    (/\ Len(flights) = 2
     /\ flights[1].hit # flights[2].hit
     /\ flights[2].startTime < flights[1].startTime + contentDelay
     /\ contentTimers = {}) =>
        /\ fired = <<1, 2>>
        /\ overlay.content = sectionOf[flights[2].hit]

\* C11: a second onMouseMove at the same place, with nothing run in between,
\* leaves the cursor, every opacity, scale and y and every stored originalY as
\* the first call left them: the feedback is neither removed nor applied twice.
C11_RepeatedMoveIdempotent ==
    [][(lastOp'.op = "move" /\ lastOp'.id = 1 /\ listening) =>
          UNCHANGED <<cursor, opacity, scale, posY, origY>>]_vars

\* the repeated move is over a registered object that floats and carries the
\* hover feedback
C11_Witness ==
    /\ lastOp.op = "move" /\ lastOp.id = 1 /\ listening
    /\ lastOp.hit \in objectsToFloat
    /\ Root(lastOp.hit) \in Registered
    /\ scale[Root(lastOp.hit)] = hoverScale
    /\ posY[Root(lastOp.hit)] = origY[Root(lastOp.hit)][1] + hoverLift

\* C12: when the delayed dispatch runs for a clicked object whose userData.type
\* is none of the seven types (undefined included), the switch matches no case:
\* the overlay's visibility and content stay as they were.
C12_UnknownTypeNoOp ==
    [][(/\ lastOp'.op = "dispatch"
        /\ userType[flights[lastOp'.id].targetObject] \notin TypeSet) =>
          UNCHANGED overlay]_vars

\* the dispatch of a click on an object without a type has run
C12_Witness ==
    /\ lastOp.op = "dispatch"
    /\ userType[flights[lastOp.id].targetObject] = "undefined"
    /\ lastOp.id \in Range(fired)
    /\ overlay.hidden

\* C13: on every tick of a flight the progress that is passed to easeInOut
\* lies between 0 and 1, whatever the frame's timestamp.
C13_ProgressInUnitInterval ==
    lastOp.op = "animateCamera" =>
        LET p == progress(frameTime, flights[lastOp.id].startTime)
        IN 0 <= p /\ p <= 1000

\* flight i has run its last tick: no callback of it is requested or waiting
Done(i) == i <= Len(flights) /\ i \notin activeFlights

\* C14: every flight that was started reaches a tick after which no callback of
\* it is requested; from then on none is requested again, and the camera and
\* the controls target are written only by ticks of flights that are not done.
C14_FlightTerminates ==
    /\ \A i \in 1..MaxClicks : (i <= Len(flights)) ~> Done(i)
    /\ \A i \in 1..MaxClicks : [](Done(i) => []Done(i))
    /\ [][cameraVars' # cameraVars =>
             /\ lastOp'.op = "animateCamera"
             /\ lastOp'.id \in Range(rafNext) \cup Range(rafNow)
             /\ lastOp'.id \notin Range(rafNext') \cup Range(rafNow') =>
                   progress(frameTime, flights[lastOp'.id].startTime) = 1000]_vars

\* a flight that was started while an earlier one was under way is done, its
\* last tick ran at progress 1 and left the camera at its end pose
C14_Witness ==
    /\ Len(flights) = 2
    /\ flights[2].startTime < flights[1].startTime + duration
    /\ Done(1) /\ Done(2)
    /\ lastOp.op = "animateCamera" /\ lastOp.id = 2
    /\ cameraPos = flights[2].newPosition

\* C15: while there is a single flight, a tick at progress 0 leaves the camera
\* and the controls target at the flight's start pose, a tick at progress 1
\* leaves them at its end pose, and a tick at progress 0.5 passes 0.5 to the
\* interpolation: easeInOut(0.5) = 0.5.
C15_BoundaryPoses ==
    (lastOp.op = "animateCamera" /\ Len(flights) = 1) =>
        LET f == flights[1]
            p == progress(frameTime, f.startTime)
        IN /\ p = 0 =>
                 cameraPos = f.startPosition /\ controlsTarget = f.startTarget
           /\ p = 1000 =>
                 cameraPos = f.newPosition /\ controlsTarget = f.newTarget
           /\ p = 500 =>
                 /\ easeInOut(p) = 500
                 /\ cameraPos = lerpVectors(f.startPosition, f.newPosition, 500)
                 /\ controlsTarget = lerpVectors(f.startTarget, f.newTarget, 500)

\* the third tick of a single flight ran at progress 1 and moved the camera
\* from the start pose to the end pose
C15_Witness ==
    /\ lastOp.op = "animateCamera" /\ Len(flights) = 1
    /\ frames = 3
    /\ frameTime = flights[1].startTime + duration
    /\ cameraPos = flights[1].newPosition
    /\ cameraPos # flights[1].startPosition

\* C16: nothing is registered while the load race is open; the step that
\* settles it registers seven objects, the loaded models when the race resolved
\* and the placeholders when it was rejected, and the registry never changes
\* afterwards, a load that completes later included; a move or a click that
\* arrives while the race is open changes nothing.
C16_RegisteredOnceAfterRace ==
    /\ [](modelsLoaded = "pending" =>
              clickableObjects = <<>> /\ \A t \in TypeSet : kind[t] = "absent")
    /\ [](modelsLoaded = "true" =>
              /\ clickableObjects = [i \in 1..Len(types) |-> Root(types[i])]
              /\ \A t \in TypeSet : loadState[t] = "resolved" /\ kind[t] = models[t])
    /\ [](modelsLoaded = "false" =>
              /\ clickableObjects = [i \in 1..Len(types) |-> Root(types[i])]
              /\ \A t \in TypeSet : kind[t] = "box")
    /\ [][(modelsLoaded # "pending" =>
               UNCHANGED <<modelsLoaded, clickableObjects, kind, userType,
                           floatingObjects>>)
          /\ ((lastOp'.op \in {"move", "click"} /\ modelsLoaded = "pending") =>
               UNCHANGED <<loaderVars, sceneVars, cameraVars, flights, rafVars,
                           timers, overlay, fired>>)]_vars

\* the pointer was moved over an object while the race was open, the timeout
\* settled the race, and the stalled load has completed after it
C16_Witness ==
    /\ lastOp.op = "loadResolve" /\ lastOp.id = 0
    /\ modelsLoaded = "false"
    /\ \A t \in TypeSet : models[t] # "none" /\ kind[t] = "box"
    /\ now = loadTimeout
    /\ pointer # NoHit /\ cursor = "default"

\* C17: after hideContent the overlay stays hidden until the dispatch of a click
\* made after the close: a step that shows the overlay again is the dispatch of
\* a click that was handled after hideContent ran.
C17_ClosedStaysClosed ==
    [][(closedAt >= 0 /\ overlay.hidden /\ ~overlay'.hidden) =>
          lastOp'.op = "dispatch" /\ lastOp'.id > closedAt]_vars

\* the scale add3DObjects gave the object of type t; addFallbackObjects leaves
\* the scale of a placeholder at 1
placementScale(t) == IF kind[t] = "box" THEN baseScale ELSE modelScale[t]

\* C18: after a pointer move every registered object other than the one the
\* pointer is over has the scale it was placed with; when the pointer is over
\* no object, every registered object has it.
C18_MoveKeepsPlacementScale ==
    (lastOp.op = "move" /\ listening) =>
        \A o \in Registered :
            o # Root(lastOp.hit) => scale[o] = placementScale(o[2])

====
